---- MODULE Spec2Model ----
(***************************************************************************)
(* tip: an interactive front-end that re-runs a command for every edit of  *)
(* a query line.  The model covers the threads of src/main.rs and          *)
(* src/terminal.rs: the event loop (main thread), the tty input thread,    *)
(* the signal thread, the redraw pipe thread with its throttler, the       *)
(* supervisor thread with the child processes it spawns, and one reader    *)
(* thread per spawned child.                                               *)
(***************************************************************************)
EXTENDS Integers, Sequences, FiniteSets, TLC

\* ---------------------------------------------------------------- bounds

\* Keystrokes typed, per specification (see the specifications at the end).
MaxKeys == 3
MaxEdits == 1
\* Number of signals delivered to the signal thread.
MaxSignals == 1
\* Number of bytes a child writes to each of its two output streams.
MaxOut == 1
\* Number of times the supervisor's spawn may fail.
MaxSpawnFail == 1

\* Length of the byte sequences an EscapedVec is built from, and the largest
\* argument of cap.
MaxBytes == 4
MaxCap == 3

\* The largest window the terminal reports, and the lengths of the query
\* and of the OutputBuffer that are rendered.
MaxRows == 3
MaxCols == 2
MaxQuery == 3
MaxData == 3

\* The keystrokes whose reads the terminal delivers in one burst.
MaxBurst == 2

Max(a, b) == IF a > b THEN a ELSE b
Min(a, b) == IF a < b THEN a ELSE b

\* Every successful spawn of the supervisor consumes one query, the first
\* one being the initial empty query.
MaxChildren == Max(MaxKeys, MaxEdits) + 1
Children == 1..MaxChildren

\* ------------------------------------------------------- terminal input

\* What one read of /dev/tty returns: a byte, or one of two markers.
\* TIMEOUT: poll() returned 0.  EOF: read() returned 0 bytes.
TIMEOUT == 0 - 1
EOF == 0 - 2

ESC == 27
LBRACKET == 91
DEL == 127

Ev(kind, ch, esc) == [kind |-> kind, ch |-> ch, esc |-> esc]
NoEvent == Ev("None", 0, "")

\* The read results a keystroke produces, one sequence per keystroke.
Keys ==
    { <<97>>,                   \* a
      <<233>>,                  \* 0xE9
      <<DEL>>,
      <<13>>,                   \* Return, Ctrl-M
      <<3>>,                    \* Ctrl-C
      <<ESC, TIMEOUT>>,         \* bare ESC
      <<ESC, LBRACKET, 68>>,    \* ESC [ D
      <<ESC, LBRACKET, 67>>,    \* ESC [ C
      <<ESC, LBRACKET, 65>>,    \* ESC [ A
      <<ESC, 79, 80>>,          \* ESC O P
      <<ESC, LBRACKET, EOF>>,   \* ESC [ and the end of input
      <<155>> }                 \* 0x9B

is_escape_end(ch) == ch \in 64..126

\* read_escape_to_end on the reads rs: the string up to and including the
\* first final byte, "err" when read_u8 fails, "blocked" when no read is left.
RECURSIVE read_escape_to_end(_, _)
read_escape_to_end(rs, acc) ==
    IF rs = <<>> THEN [t |-> "blocked", s |-> acc]
    ELSE IF Head(rs) = EOF THEN [t |-> "err", s |-> acc]
    ELSE IF is_escape_end(Head(rs)) THEN [t |-> "ok", s |-> Append(acc, Head(rs))]
    ELSE read_escape_to_end(Tail(rs), Append(acc, Head(rs)))

\* read_escape telling the sequences apart by their final byte only.
read_escape_by_final_byte(rs) ==
    IF rs = <<>> THEN Ev("Blocked", 0, "")
    ELSE IF Head(rs) = TIMEOUT THEN Ev("Escape", 0, "Timeout")
    ELSE IF Head(rs) = EOF THEN Ev("Err", 0, "")
    ELSE IF Head(rs) # LBRACKET THEN Ev("Err", 0, "")
    ELSE LET e == read_escape_to_end(Tail(rs), <<>>) IN
         IF e.t = "blocked" THEN Ev("Blocked", 0, "")
         ELSE IF e.t = "err" THEN Ev("Err", 0, "")
         ELSE IF e.s[Len(e.s)] = 68 THEN Ev("Escape", 0, "LeftArrow")
         ELSE IF e.s[Len(e.s)] = 67 THEN Ev("Escape", 0, "RightArrow")
         ELSE NoEvent

\* read_escape on the reads that follow the ESC byte.
read_escape(rs) ==
    IF rs = <<>> THEN Ev("Blocked", 0, "")
    ELSE IF Head(rs) = TIMEOUT THEN Ev("Escape", 0, "Timeout")
    ELSE IF Head(rs) = EOF THEN Ev("Err", 0, "")
    ELSE IF Head(rs) # LBRACKET THEN Ev("Err", 0, "")
    ELSE LET e == read_escape_to_end(Tail(rs), <<>>) IN
         IF e.t = "blocked" THEN Ev("Blocked", 0, "")
         ELSE IF e.t = "err" THEN Ev("Err", 0, "")
         ELSE IF e.s = <<68>> THEN Ev("Escape", 0, "LeftArrow")
         ELSE IF e.s = <<67>> THEN Ev("Escape", 0, "RightArrow")
         ELSE IF e.s = <<49, 59, 53, 68>> THEN Ev("Escape", 0, "CtrlLeftArrow")
         ELSE IF e.s = <<49, 59, 53, 67>> THEN Ev("Escape", 0, "CtrlRightArrow")
         ELSE NoEvent

\* read_input on the reads rs: the decoded input, None, Err (the Result is
\* an error) or Todo (the arm panics).
read_input(rs) ==
    LET b == Head(rs) IN
    IF b = EOF THEN NoEvent
    ELSE IF b = ESC THEN read_escape(Tail(rs))
    ELSE IF b \in {155, 144, 157} THEN Ev("Todo", 0, "")
    ELSE IF b = DEL THEN Ev("Delete", 0, "")
    ELSE IF b \in 1..26 THEN Ev("Ctrl", 97 + b - 1, "")
    ELSE Ev("Printable", b, "")

\* The number of reads read_escape does on the reads that follow the ESC
\* byte: the poll with its read, then read_u8 up to the final byte or the
\* failed read.
reads_of_escape(rs) ==
    IF rs = <<>> THEN 0
    ELSE IF Head(rs) # LBRACKET THEN 1
    ELSE LET e == read_escape_to_end(Tail(rs), <<>>) IN
         1 + Len(e.s) + (IF e.t = "err" THEN 1 ELSE 0)

\* The number of reads read_input does on the reads rs.
reads_of_input(rs) == IF Head(rs) = ESC THEN 1 + reads_of_escape(Tail(rs)) ELSE 1

\* ---------------------------------------------------------- query model

\* One char of the query as the bytes of its UTF-8 encoding (chars come
\* from `u8 as char`, so they are below 256).
Utf8(c) == IF c < 128 THEN <<c>> ELSE <<192 + (c \div 64), 128 + (c % 64)>>

\* UiPrompt::get_string: the chars collected into a String.
RECURSIVE get_string(_)
get_string(q) == IF q = <<>> THEN <<>> ELSE Utf8(Head(q)) \o get_string(Tail(q))

\* The prompt p = [query, cursor_index]; every operation returns the new
\* prompt with `sent`, the strings it sends on the query channel.
Prompt(q, c, sent) == [query |-> q, cursor_index |-> c, sent |-> sent]

\* move_cursor without the clamp to the length of the query.
move_cursor_unclamped(p, columns) ==
    Prompt(p.query, Max(p.cursor_index + columns, 0), <<>>)

move_cursor(p, columns) ==
    Prompt(p.query, Min(Max(p.cursor_index + columns, 0), Len(p.query)), <<>>)

add_character(p, ch) ==
    LET q == SubSeq(p.query, 1, p.cursor_index) \o <<ch>>
             \o SubSeq(p.query, p.cursor_index + 1, Len(p.query))
    IN Prompt(q, p.cursor_index + 1, <<get_string(q)>>)

delete_character(p) ==
    IF p.cursor_index = 0 THEN Prompt(p.query, p.cursor_index, <<>>)
    ELSE LET q == SubSeq(p.query, 1, p.cursor_index - 1)
                  \o SubSeq(p.query, p.cursor_index + 1, Len(p.query))
         IN Prompt(q, p.cursor_index - 1, <<get_string(q)>>)

\* ComponentPrompt::input for UiPrompt.
prompt_input(p, ev) ==
    IF ev.kind = "Delete" THEN delete_character(p)
    ELSE IF ev.kind = "Printable" THEN add_character(p, ev.ch)
    ELSE IF ev.kind = "Escape" /\ ev.esc = "LeftArrow" THEN move_cursor(p, 0 - 1)
    ELSE IF ev.kind = "Escape" /\ ev.esc = "RightArrow" THEN move_cursor(p, 1)
    ELSE Prompt(p.query, p.cursor_index, <<>>)

\* A termination predicate whose Ctrl-C arm sets print_to_stdout as well.
stop_ctrl_c_prints(ev, print) ==
    IF ev.kind = "Ctrl" /\ ev.ch \in {109, 99} THEN [stop |-> TRUE, print |-> TRUE]
    ELSE IF ev.kind = "Escape" /\ ev.esc = "Timeout" THEN [stop |-> TRUE, print |-> print]
    ELSE [stop |-> FALSE, print |-> print]

\* The termination predicate main_err passes to TerminalRenderer::start:
\* whether to stop, and the value print_to_stdout has afterwards.
stop(ev, print) ==
    IF ev.kind = "Ctrl" /\ ev.ch = 109 THEN [stop |-> TRUE, print |-> TRUE]
    ELSE IF ev.kind = "Ctrl" /\ ev.ch = 99 THEN [stop |-> TRUE, print |-> print]
    ELSE IF ev.kind = "Escape" /\ ev.esc = "Timeout" THEN [stop |-> TRUE, print |-> print]
    ELSE [stop |-> FALSE, print |-> print]

\* ------------------------------------------------------ escape sequences

LF == 10
CR == 13

\* EscapedIter: for the bytes chars, the in_escape of the item next() returns
\* for each of them; in_escape is the field of the iterator.
EscapedIter[chars \in Seq(Int), in_escape \in BOOLEAN] ==
    IF chars = <<>> THEN <<>>
    ELSE LET ch == Head(chars)
             field == IF ch = ESC THEN TRUE
                      ELSE IF in_escape /\ ch # LBRACKET /\ is_escape_end(ch) THEN FALSE
                      ELSE in_escape
         IN <<(ch = ESC) \/ in_escape>> \o EscapedIter[Tail(chars), field]

\* EscapedVec::len: the fold over the items, one for each item not in_escape.
EscapedVec_len(unescaped) ==
    LET items == EscapedIter[unescaped, FALSE]
    IN Cardinality({ i \in DOMAIN items : ~items[i] })

\* The for loop of EscapedVec::cap over the remaining items: real_len when
\* the loop ends or breaks.
cap_loop[items \in Seq(BOOLEAN), cap \in Int, len \in Int, real_len \in Int] ==
    IF items = <<>> THEN real_len
    ELSE IF Head(items) THEN cap_loop[Tail(items), cap, len, real_len + 1]
    ELSE IF len + 1 >= cap THEN real_len + 1
    ELSE cap_loop[Tail(items), cap, len + 1, real_len + 1]

\* cap cutting after cap bytes, whether or not they are inside an escape.
EscapedVec_cap_by_bytes(unescaped, cap) == SubSeq(unescaped, 1, Min(cap, Len(unescaped)))

\* EscapedVec::cap: &self.unescaped[..real_len].
EscapedVec_cap(unescaped, cap) ==
    SubSeq(unescaped, 1, cap_loop[EscapedIter[unescaped, FALSE], cap, 0, 0])

\* An EscapedVec, the argument of cap, and the results of len() and cap()
\* once they are called.
Escaped(u, n) == [unescaped |-> u, n |-> n, has_len |-> FALSE, len |-> 0,
                  has_cap |-> FALSE, cap |-> <<>>]
NoEscaped == [unescaped |-> <<>>, n |-> 0, has_len |-> TRUE, len |-> 0,
              has_cap |-> TRUE, cap |-> <<>>]

\* ------------------------------------------------------ frame composition

\* usize and isize values are written as the isize reading of their bits:
\* `as isize` and `as usize` are the identity, usize::MAX is -1, and a usize
\* subtraction underflows when it goes from 0 to -1.

\* ComponentPrompt::render and ComponentData::render.
ComponentPromptOut(q, c) == [query |-> q, cursor_index |-> c]
ComponentDataOut(d) == [i \in 1..Len(d) |-> d[i].val]

\* TerminalRenderState::new.
TerminalRenderState(sz) ==
    [left_lines |-> sz.ws_row, cursor_line |-> 1, cursor_col |-> 1, underflow |-> FALSE]

\* window_str with size the whole width, whatever the cursor index.
window_str_from_start(source, sz, index) == SubSeq(source, 1, Min(sz, Len(source)))

window_str(source, sz, index) ==
    IF index < sz THEN SubSeq(source, 1, Min(sz, Len(source)))
    ELSE SubSeq(source, index - sz + 1, index)

\* render_component_prompt: the render state afterwards and the window written.
render_component_prompt(out, sz, state) ==
    [state |-> [left_lines |-> state.left_lines - 1,
                cursor_line |-> 1,
                cursor_col |-> out.cursor_index + 1,
                underflow |-> state.underflow \/ state.left_lines = 0],
     window |-> window_str(out.query, sz.ws_col, out.cursor_index)]

\* out.0.split(|v| *v == b'\n'): the lines, one more than there are \n.
split[bytes \in Seq(Int), acc \in Seq(Int)] ==
    IF bytes = <<>> THEN <<acc>>
    ELSE IF Head(bytes) = LF THEN <<acc>> \o split[Tail(bytes), <<>>]
    ELSE split[Tail(bytes), Append(acc, Head(bytes))]

\* line.iter().filter(|v| **v != b'\r').
filter_cr[line \in Seq(Int)] ==
    IF line = <<>> THEN <<>>
    ELSE IF Head(line) = CR THEN filter_cr[Tail(line)]
    ELSE <<Head(line)>> \o filter_cr[Tail(line)]

\* (len as f32 / ws_col as f32).ceil().max(1.0) as usize: with ws_col = 0 the
\* quotient is NaN for len = 0, and max gives 1.0, else it is infinite and
\* the cast saturates to usize::MAX.
takes_up_lines(len, ws_col) ==
    IF ws_col = 0 THEN (IF len = 0 THEN 1 ELSE 0 - 1)
    ELSE Max((len + ws_col - 1) \div ws_col, 1)

\* The while loop of render_component_data: the lines written and left_lines
\* when it ends.
data_lines[lines \in Seq(Seq(Int)), left_lines \in Int, ws_col \in Int, written \in Seq(Seq(Int))] ==
    IF left_lines <= 0 \/ lines = <<>> THEN [left_lines |-> left_lines, written |-> written]
    ELSE LET line == filter_cr[Head(lines)]
             len == EscapedVec_len(line)
             takes == takes_up_lines(len, ws_col)
             cap == IF left_lines - takes < 0 THEN ws_col * left_lines ELSE len
         IN data_lines[Tail(lines), left_lines - takes, ws_col,
                       Append(written, EscapedVec_cap(line, cap))]

\* render_component_data: the render state afterwards, the number of dashes
\* of the separator and the lines written after it.
render_component_data(out, sz, state) ==
    LET r == data_lines[split[out, <<>>], state.left_lines - 1, sz.ws_col, <<>>]
    IN [left_lines |-> Max(r.left_lines, 0),
        cursor_line |-> state.cursor_line,
        cursor_col |-> state.cursor_col,
        underflow |-> state.underflow \/ state.left_lines = 0,
        separator |-> sz.ws_col,
        lines |-> r.written]

\* rerender: the prompt component, then the data component, then the cursor
\* is moved to the position the render state holds.
rerender(sz, prompt, out) ==
    LET p == render_component_prompt(prompt, sz, TerminalRenderState(sz))
    IN [prompt |-> p.window] @@ render_component_data(out, sz, p.state)

\* No frame has been written.
NoFrame == [prompt |-> <<>>, separator |-> 0 - 1, lines |-> <<>>, cursor_line |-> 0,
            cursor_col |-> 0, left_lines |-> 0, underflow |-> FALSE]

\* ------------------------------------------------------------------ state

VARIABLES
    \* main thread: main_err and TerminalRenderer::start
    mainPc,            \* "render", "recv", "drop", "final", "return", "exiting", "exited"
    print_to_stdout,
    loopExit,          \* what ended the event loop: "none", "ctrl_m", "ctrl_c", "esc", "quit", "error"
    exitStatus,        \* the status the process exited with, -1 while it runs
    finalRun,          \* pipe_cmd_stdout: "none", "ran", "failed"
    finalArgv,         \* the command line pipe_cmd_stdout built, <<>> before it
    termios,           \* "raw" or "original"
    screen,            \* "alternate" or "normal"
    debug,             \* TIP_DEBUG=true
    size,              \* the cached winsize
    query, cursor_index,
    queryChan,         \* the strings sent on the query channel and not yet received
    sent,              \* every string sent on the query channel, in the order sent
    frame,             \* the OutputBuffer snapshot the last rendered frame shows
    rendered,          \* what the last rerender() wrote to the terminal
    escaped,           \* an EscapedVec with the results of its len() and cap()
    \* tty input thread
    inputPc,           \* "read", "send", "panicked", "done"
    inputEv,
    tty,               \* the terminal: the keystrokes it can deliver, how many are left,
                       \* the reads pending, the window sizes it can take, and the
                       \* size it has
    \* signal thread
    sigPc,             \* "wait", "send", "done"
    sigEv, sigCount,
    \* redraw pipe thread and Throttle
    pipePc,            \* "recv", "call"
    should_fire,
    throttlePc,        \* "sleep", "check", "fire"
    slept,             \* a sleep of the throttle thread has elapsed since func() last returned
    pinged,            \* calls of Throttle::call since should_fire was last cleared
    taken,             \* the calls the Redraw of this period stands for, 0 when there is none
    \* supervisor thread, UiWaitingProcess::start
    supPc,             \* "spawn", "assign", "reset", "reset_send", "recv", "done"
    supQuery,
    supChild,          \* the child in _child, 0 for None
    supNew,            \* the child spawn() returned and _child does not hold yet, else 0
    lastSpawn,         \* outcome of the latest spawn for supQuery: "none", "ok", "failed"
    nSpawned, spawnFails,
    data,              \* the OutputBuffer
    \* child processes and their reader threads
    childState,        \* "unborn", "running", "exited" (not reaped), "reaped"
    argv,              \* the command line each child was spawned with
    emitted,           \* bytes the child has written to each stream
    pipe,              \* bytes written to each stream and not read
    reader             \* reader thread of each child

mainVars == <<mainPc, print_to_stdout, loopExit, exitStatus, finalRun, finalArgv>>
termVars == <<termios, screen, debug>>
promptVars == <<query, cursor_index, queryChan, sent>>
inputVars == <<inputPc, inputEv, tty>>
sigVars == <<sigPc, sigEv, sigCount>>
throttleVars == <<should_fire, throttlePc, slept, pinged, taken>>
supVars == <<supPc, supQuery, supChild, supNew, lastSpawn, nSpawned, spawnFails>>
childVars == <<childState, emitted, pipe, argv>>

vars == <<mainVars, termVars, size, promptVars, frame, rendered, escaped, inputVars,
          sigVars, pipePc, throttleVars, supVars, data, childVars, reader>>

\* The sizes the window-size ioctl reports.
WinSizes == { [ws_row |-> 3, ws_col |-> 4], [ws_row |-> 2, ws_col |-> 3] }

NoExit == [why |-> "none", ev |-> NoEvent]
Streams == {"out", "err"}
\* The i-th byte child c writes to its stream s; the children write `x`.
Byte(c, s, i) == [child |-> c, stream |-> s, i |-> i, val |-> 120]
NoReader == [pc |-> "none", stream |-> "out", has_read |-> FALSE, buf |-> <<>>]

\* The process runs: its threads take steps.
Alive == mainPc # "exited"
\* The TerminalRenderer, and with it event_rx, has been dropped.
EventRxDropped == mainPc \in {"final", "return", "exiting", "exited"}
\* ui_prompt, and with it the only query sender, has been dropped.
QueryTxDropped == mainPc \in {"exiting", "exited"}

\* The terminal side once main_err has built the renderer and is about to
\* call start(), in an environment where the terminal delivers n keystrokes
\* out of keys and reports the window sizes of sizes.
InitTerminal(keys, n, debugs, sizes) ==
    /\ mainPc = "render" /\ print_to_stdout = FALSE /\ loopExit = NoExit
    /\ exitStatus = 0 - 1 /\ finalRun = "none" /\ finalArgv = <<>>
    /\ termios = "raw" /\ debug \in debugs
    /\ screen = IF debug THEN "normal" ELSE "alternate"
    /\ size \in sizes
    /\ frame = <<>> /\ rendered = NoFrame
    /\ inputPc = "read" /\ inputEv = NoEvent
    /\ tty = [keys |-> keys, left |-> n, pending |-> <<>>, sizes |-> sizes, size |-> size]
    /\ sigPc = "wait" /\ sigEv = "None"

\* The redraw pipe thread in recv() and the throttle thread in its first
\* sleep, after n calls of Throttle::call.
InitPipe(n) ==
    /\ pipePc = "recv" /\ should_fire = (n > 0) /\ throttlePc = "sleep" /\ slept = FALSE
    /\ pinged = n /\ taken = 0

\* The supervisor thread as UiWaitingProcess::new starts it, and the prompt
\* as UiPrompt::new builds it.
InitSupervisor ==
    /\ query = <<>> /\ cursor_index = 0 /\ queryChan = <<>> /\ sent = <<>>
    /\ supPc = "spawn" /\ supQuery = <<>> /\ supChild = 0 /\ supNew = 0
    /\ lastSpawn = "none" /\ nSpawned = 0 /\ spawnFails = 0
    /\ data = <<>>
    /\ childState = [c \in Children |-> "unborn"]
    /\ argv = [c \in Children |-> <<>>]
    /\ emitted = [c \in Children |-> [s \in Streams |-> 0]]
    /\ pipe = [c \in Children |-> [s \in Streams |-> <<>>]]
    /\ reader = [c \in Children |-> NoReader]

\* The state once main_err has built the supervisor, the prompt and the
\* renderer and is about to call start().
InitWith(keys, n, debugs, sizes) ==
    /\ InitTerminal(keys, n, debugs, sizes)
    /\ sigCount = 0
    /\ InitPipe(0)
    /\ InitSupervisor
    /\ escaped = NoEscaped

\* ------------------------------------------------------- child processes

\* A running child writes one byte to its standard output or standard error.
ChildWrite(c, s) ==
    /\ Alive /\ childState[c] = "running" /\ emitted[c][s] < MaxOut
    /\ emitted' = [emitted EXCEPT ![c][s] = @ + 1]
    /\ pipe' = [pipe EXCEPT ![c][s] = Append(@, Byte(c, s, emitted[c][s] + 1))]
    /\ UNCHANGED <<mainVars, termVars, size, promptVars, frame, rendered, escaped,
                   inputVars, sigVars, pipePc, throttleVars, supVars, data, childState,
                   argv, reader>>

\* A running child exits by itself; it stays unreaped until it is waited for.
ChildExit(c) ==
    /\ Alive /\ childState[c] = "running"
    /\ childState' = [childState EXCEPT ![c] = "exited"]
    /\ UNCHANGED <<mainVars, termVars, size, promptVars, frame, rendered, escaped,
                   inputVars, sigVars, pipePc, throttleVars, supVars, data, emitted, pipe,
                   argv, reader>>

\* The command and the arguments the program was started with.
CmdLine == <<"cmd", "arg">>

\* A command that gets the query as its last argument even when it is empty.
create_command_appends_empty(cmdline, q) == Append(cmdline, q)

\* create_command: the command line of a child, the query appended as the
\* last argument unless it is empty.
create_command(cmdline, q) == IF q # <<>> THEN Append(cmdline, q) ELSE cmdline

\* Drop for DroppableChild: kill, then wait.
drop_child(c) == IF c = 0 THEN childState ELSE [childState EXCEPT ![c] = "reaped"]

\* ------------------------------------------------------------ supervisor

\* command.spawn() returns a child.  The new child runs before the
\* assignment to _child drops the previous one.
SupSpawnOk ==
    /\ Alive /\ supPc = "spawn"
    /\ nSpawned' = nSpawned + 1
    /\ childState' = [childState EXCEPT ![nSpawned + 1] = "running"]
    /\ supNew' = nSpawned + 1
    /\ argv' = [argv EXCEPT ![nSpawned + 1] = create_command(CmdLine, supQuery)]
    /\ lastSpawn' = "ok"
    /\ supPc' = "assign"
    /\ UNCHANGED <<mainVars, termVars, size, promptVars, frame, rendered, escaped,
                   inputVars, sigVars, pipePc, throttleVars, supQuery, supChild,
                   spawnFails, data, emitted, pipe, reader>>

\* command.spawn() fails: onerr! runs `continue`, the loop starts over.
SupSpawnFail ==
    /\ Alive /\ supPc = "spawn" /\ spawnFails < MaxSpawnFail
    /\ spawnFails' = spawnFails + 1
    /\ lastSpawn' = "failed"
    /\ supPc' = "spawn"
    /\ UNCHANGED <<mainVars, termVars, size, promptVars, frame, rendered, escaped,
                   inputVars, sigVars, pipePc, throttleVars, supQuery, supChild, supNew,
                   nSpawned, data, childVars, reader>>

\* _child = Some(..): the previous value of _child is dropped.
SupAssign ==
    /\ Alive /\ supPc = "assign"
    /\ childState' = drop_child(supChild)
    /\ supChild' = supNew
    /\ supNew' = 0
    /\ supPc' = "reset"
    /\ UNCHANGED <<mainVars, termVars, size, promptVars, frame, rendered, escaped,
                   inputVars, sigVars, pipePc, throttleVars, supQuery, lastSpawn,
                   nSpawned, spawnFails, data, emitted, pipe, argv, reader>>

\* reset_data, the assignment under the lock.
SupReset ==
    /\ Alive /\ supPc = "reset"
    /\ data' = <<>>
    /\ supPc' = "reset_send"
    /\ UNCHANGED <<mainVars, termVars, size, promptVars, frame, rendered, escaped,
                   inputVars, sigVars, pipePc, throttleVars, supQuery, supChild, supNew,
                   lastSpawn, nSpawned, spawnFails, childVars, reader>>

\* reset_data's redraw_tx.send(()) meets the pipe thread's recv(); the
\* supervisor then spawns the reader thread of the child and goes to recv().
SupResetSend ==
    /\ Alive /\ supPc = "reset_send" /\ pipePc = "recv"
    /\ pipePc' = "call"
    /\ reader' = [reader EXCEPT ![supChild] = [NoReader EXCEPT !.pc = "read"]]
    /\ supPc' = "recv"
    /\ UNCHANGED <<mainVars, termVars, size, promptVars, frame, rendered, escaped,
                   inputVars, sigVars, throttleVars, supQuery, supChild, supNew,
                   lastSpawn, nSpawned, spawnFails, data, childVars>>

\* query_rx.recv() returns the next query.
SupRecv ==
    /\ Alive /\ supPc = "recv" /\ queryChan # <<>>
    /\ supQuery' = Head(queryChan)
    /\ queryChan' = Tail(queryChan)
    /\ lastSpawn' = "none"
    /\ supPc' = "spawn"
    /\ UNCHANGED <<mainVars, termVars, size, query, cursor_index, sent, frame, rendered,
                   escaped, inputVars, sigVars, pipePc, throttleVars, supChild, supNew,
                   nSpawned, spawnFails, data, childVars, reader>>

\* query_rx.recv() fails, the sender is gone: the thread returns and _child
\* is dropped.
SupRecvClosed ==
    /\ Alive /\ supPc = "recv" /\ queryChan = <<>> /\ QueryTxDropped
    /\ childState' = drop_child(supChild)
    /\ supChild' = 0
    /\ supPc' = "done"
    /\ UNCHANGED <<mainVars, termVars, size, promptVars, frame, rendered, escaped,
                   inputVars, sigVars, pipePc, throttleVars, supQuery, supNew, lastSpawn,
                   nSpawned, spawnFails, data, emitted, pipe, argv, reader>>

\* ---------------------------------------------------------- reader thread

\* stream.read() of read_child_stream returns bytes: all that the pipe holds.
ReaderRead(c) ==
    /\ Alive /\ reader[c].pc = "read" /\ pipe[c][reader[c].stream] # <<>>
    /\ reader' = [reader EXCEPT ![c] =
                    [pc |-> IF @.has_read THEN "push" ELSE "reset",
                     stream |-> @.stream, has_read |-> TRUE,
                     buf |-> pipe[c][@.stream]]]
    /\ pipe' = [pipe EXCEPT ![c][reader[c].stream] = <<>>]
    /\ UNCHANGED <<mainVars, termVars, size, promptVars, frame, rendered, escaped,
                   inputVars, sigVars, pipePc, throttleVars, supVars, data, childState,
                   emitted, argv>>

\* stream.read() returns 0: the pipe is empty and the child, the only writer,
\* is gone.  After stdout the thread reads stderr, after stderr it ends.
ReaderEof(c) ==
    /\ Alive /\ reader[c].pc = "read" /\ pipe[c][reader[c].stream] = <<>>
    /\ childState[c] \in {"exited", "reaped"}
    /\ reader' = [reader EXCEPT ![c] =
                    IF @.stream = "out"
                    THEN [pc |-> "read", stream |-> "err", has_read |-> FALSE, buf |-> <<>>]
                    ELSE [pc |-> "done", stream |-> "err", has_read |-> FALSE, buf |-> <<>>]]
    /\ UNCHANGED <<mainVars, termVars, size, promptVars, frame, rendered, escaped,
                   inputVars, sigVars, pipePc, throttleVars, supVars, data, childVars>>

\* reset_data on the first read of a stream, the assignment under the lock.
ReaderReset(c) ==
    /\ Alive /\ reader[c].pc = "reset"
    /\ data' = <<>>
    /\ reader' = [reader EXCEPT ![c].pc = "reset_send"]
    /\ UNCHANGED <<mainVars, termVars, size, promptVars, frame, rendered, escaped,
                   inputVars, sigVars, pipePc, throttleVars, supVars, childVars>>

\* push_to_data with the send moved into the block that holds the lock.
ReaderPushSendLocked(c) ==
    /\ Alive /\ reader[c].pc = "push" /\ pipePc = "recv"
    /\ data' = data \o reader[c].buf
    /\ pipePc' = "call"
    /\ reader' = [reader EXCEPT ![c].pc = "read", ![c].buf = <<>>]
    /\ UNCHANGED <<mainVars, termVars, size, promptVars, frame, rendered, escaped,
                   inputVars, sigVars, throttleVars, supVars, childVars>>

\* push_to_data, the appends under the lock.
ReaderPush(c) ==
    /\ Alive /\ reader[c].pc = "push"
    /\ data' = data \o reader[c].buf
    /\ reader' = [reader EXCEPT ![c].pc = "push_send", ![c].buf = <<>>]
    /\ UNCHANGED <<mainVars, termVars, size, promptVars, frame, rendered, escaped,
                   inputVars, sigVars, pipePc, throttleVars, supVars, childVars>>

\* redraw_tx.send(()) of reset_data or push_to_data meets the pipe thread's recv().
ReaderSend(c) ==
    /\ Alive /\ reader[c].pc \in {"reset_send", "push_send"} /\ pipePc = "recv"
    /\ pipePc' = "call"
    /\ reader' = [reader EXCEPT ![c].pc = IF @ = "reset_send" THEN "push" ELSE "read"]
    /\ UNCHANGED <<mainVars, termVars, size, promptVars, frame, rendered, escaped,
                   inputVars, sigVars, throttleVars, supVars, data, childVars>>

\* ------------------------------------------------------ tty input thread

\* The reads read_input can be served with: those pending on the tty when
\* they let it return, else those with the reads of one more keystroke.
NextReads ==
    IF tty.pending # <<>> /\ read_input(tty.pending).kind # "Blocked" THEN {tty.pending}
    ELSE IF tty.left > 0 THEN { tty.pending \o k : k \in tty.keys }
    ELSE {}

\* terminal_reader.read_input() on the reads of the tty; the reads it does
\* not do stay pending.  An Err is unwrapped and a todo!() arm is reached:
\* both panic the thread.  None loops.
InputRead ==
    /\ Alive /\ inputPc = "read"
    /\ \E rs \in NextReads :
         LET r == read_input(rs) IN
         /\ r.kind # "Blocked"
         /\ inputPc' = IF r.kind \in {"Err", "Todo"} THEN "panicked"
                       ELSE IF r.kind = "None" THEN "read" ELSE "send"
         /\ inputEv' = IF r.kind \in {"Err", "Todo", "None"} THEN NoEvent ELSE r
         /\ tty' = [tty EXCEPT !.left = IF rs = tty.pending THEN @ ELSE @ - 1,
                               !.pending = SubSeq(rs, reads_of_input(rs) + 1, Len(rs))]
    /\ UNCHANGED <<mainVars, termVars, size, promptVars, frame, rendered, escaped,
                   sigVars, pipePc, throttleVars, supVars, data, childVars, reader>>

\* event_tx.send(Input(..)) fails, the receiver is gone: break.
InputSendClosed ==
    /\ Alive /\ inputPc = "send" /\ EventRxDropped
    /\ inputPc' = "done" /\ inputEv' = NoEvent
    /\ UNCHANGED <<mainVars, termVars, size, promptVars, frame, rendered, escaped, tty,
                   sigVars, pipePc, throttleVars, supVars, data, childVars, reader>>

\* ---------------------------------------------------------- signal thread

\* SIGWINCH, sent when the terminal has taken a new size, becomes Resize;
\* SIGINT and SIGTERM become Quit.
SignalArrive ==
    /\ Alive /\ sigPc = "wait" /\ sigCount < MaxSignals
    /\ \/ /\ sigEv' = "Resize"
          /\ \E sz \in tty.sizes : tty' = [tty EXCEPT !.size = sz]
       \/ /\ sigEv' = "Quit"
          /\ UNCHANGED tty
    /\ sigPc' = "send"
    /\ sigCount' = sigCount + 1
    /\ UNCHANGED <<mainVars, termVars, size, promptVars, frame, rendered, escaped,
                   inputPc, inputEv, pipePc, throttleVars, supVars, data, childVars,
                   reader>>

\* event_tx.send(..) fails, the receiver is gone: break.
SignalSendClosed ==
    /\ Alive /\ sigPc = "send" /\ EventRxDropped
    /\ sigPc' = "done" /\ sigEv' = "None"
    /\ UNCHANGED <<mainVars, termVars, size, promptVars, frame, rendered, escaped,
                   inputVars, sigCount, pipePc, throttleVars, supVars, data, childVars,
                   reader>>

\* ------------------------------------------ redraw pipe thread, Throttle

\* Throttle::call after redraw_rx.recv() returned a ping.
PipeCall ==
    /\ Alive /\ pipePc = "call"
    /\ should_fire' = TRUE
    /\ pinged' = pinged + 1
    /\ pipePc' = "recv"
    /\ UNCHANGED <<mainVars, termVars, size, promptVars, frame, rendered, escaped,
                   inputVars, sigVars, throttlePc, slept, taken, supVars, data, childVars,
                   reader>>

\* A throttle thread that starts every period with should_fire cleared.
ThrottleSleepClears ==
    /\ Alive /\ throttlePc = "sleep"
    /\ throttlePc' = "check"
    /\ slept' = TRUE
    /\ taken' = 0
    /\ should_fire' = FALSE
    /\ pinged' = 0
    /\ UNCHANGED <<mainVars, termVars, size, promptVars, frame, rendered, escaped,
                   inputVars, sigVars, pipePc, supVars, data, childVars, reader>>

\* thread::sleep(30 ms) of the throttle thread returns.
ThrottleSleep ==
    /\ Alive /\ throttlePc = "sleep"
    /\ throttlePc' = "check"
    /\ slept' = TRUE
    /\ taken' = 0
    /\ UNCHANGED <<mainVars, termVars, size, promptVars, frame, rendered, escaped,
                   inputVars, sigVars, pipePc, should_fire, pinged, supVars, data,
                   childVars, reader>>

\* The load and compare_exchange of should_fire: when set it is cleared and
\* func() is called, else the thread sleeps again.
ThrottleCheck ==
    /\ Alive /\ throttlePc = "check"
    /\ should_fire' = FALSE
    /\ pinged' = 0
    /\ taken' = pinged
    /\ throttlePc' = IF should_fire THEN "fire" ELSE "sleep"
    /\ UNCHANGED <<mainVars, termVars, size, promptVars, frame, rendered, escaped,
                   inputVars, sigVars, pipePc, slept, supVars, data, childVars, reader>>

\* func(): event_tx.send(Redraw) fails, the receiver is gone; the error is
\* ignored.
ThrottleFireClosed ==
    /\ Alive /\ throttlePc = "fire" /\ EventRxDropped
    /\ throttlePc' = "sleep"
    /\ slept' = FALSE
    /\ UNCHANGED <<mainVars, termVars, size, promptVars, frame, rendered, escaped,
                   inputVars, sigVars, pipePc, should_fire, pinged, taken, supVars, data,
                   childVars, reader>>

\* ------------------------------------------- event loop and main thread

CtrlM == Ev("Ctrl", 109, "")
CtrlC == Ev("Ctrl", 99, "")
EscTimeout == Ev("Escape", 0, "Timeout")

\* The Input arm of TerminalRenderer::start: the termination predicate, and
\* when it is false the input goes to the prompt component.
loop_input(p, ev, print) ==
    LET r == stop(ev, print) IN
    IF r.stop
    THEN [stop |-> TRUE, print |-> r.print, prompt |-> Prompt(p.query, p.cursor_index, <<>>)]
    ELSE [stop |-> FALSE, print |-> r.print, prompt |-> prompt_input(p, ev)]

\* A drop that leaves the alternate screen and keeps the raw attributes.
writer_drop_keeps_raw(dbg, scr) == [termios |-> "raw", screen |-> IF dbg THEN scr ELSE "normal"]

\* Drop for TerminalWriter: the saved attributes are set again and, unless
\* debug, the alternate screen is left.
writer_drop(dbg, scr) == [termios |-> "original", screen |-> IF dbg THEN scr ELSE "normal"]

\* A handle_size that keeps the cached size.
handle_size_keeps(cached, term) == cached

\* handle_size: the cached size becomes the size the terminal reports.
handle_size(cached, term) == term.size

\* rerender(): the frame is composed from the prompt and a snapshot of the
\* OutputBuffer.  Without overflow checks the subtractions from left_lines
\* wrap around.
LoopRender ==
    /\ mainPc = "render"
    /\ frame' = data
    /\ rendered' = rerender(size, ComponentPromptOut(query, cursor_index),
                            ComponentDataOut(data))
    /\ mainPc' = "recv"
    /\ UNCHANGED <<print_to_stdout, loopExit, exitStatus, finalRun, finalArgv, termVars, size,
                   promptVars, escaped, inputVars, sigVars, pipePc, throttleVars,
                   supVars, data, childVars, reader>>

\* rerender() in a build with overflow checks: a subtraction from left_lines
\* that underflows panics the main thread.  The unwinding drops the
\* renderer, and the process ends with the status of a panic.
LoopRenderPanic ==
    /\ mainPc = "render"
    /\ rerender(size, ComponentPromptOut(query, cursor_index),
                ComponentDataOut(data)).underflow
    /\ termios' = writer_drop(debug, screen).termios
    /\ screen' = writer_drop(debug, screen).screen
    /\ loopExit' = [why |-> "panic", ev |-> NoEvent]
    /\ exitStatus' = 101
    /\ mainPc' = "exited"
    /\ UNCHANGED <<print_to_stdout, finalRun, finalArgv, debug, size, promptVars, frame, rendered,
                   escaped, inputVars, sigVars, pipePc, throttleVars, supVars, data,
                   childVars, reader>>

\* rerender() fails on a write to the tty: start returns the error.
LoopRenderErr ==
    /\ mainPc = "render"
    /\ loopExit' = [why |-> "error", ev |-> NoEvent]
    /\ mainPc' = "drop"
    /\ UNCHANGED <<print_to_stdout, exitStatus, finalRun, finalArgv, termVars, size, promptVars,
                   frame, rendered, escaped, inputVars, sigVars, pipePc, throttleVars,
                   supVars, data, childVars, reader>>

\* event_rx.recv() meets the input thread's send.
LoopRecvInput ==
    /\ mainPc = "recv" /\ inputPc = "send"
    /\ LET r == loop_input(Prompt(query, cursor_index, <<>>), inputEv, print_to_stdout) IN
         /\ print_to_stdout' = r.print
         /\ query' = r.prompt.query
         /\ cursor_index' = r.prompt.cursor_index
         /\ queryChan' = queryChan \o r.prompt.sent
         /\ sent' = sent \o r.prompt.sent
         /\ loopExit' = IF r.stop THEN [why |-> "input", ev |-> inputEv] ELSE loopExit
         /\ mainPc' = IF r.stop THEN "drop" ELSE "render"
    /\ inputPc' = "read" /\ inputEv' = NoEvent
    /\ UNCHANGED <<exitStatus, finalRun, finalArgv, termVars, size, frame, rendered, escaped, tty,
                   sigVars, pipePc, throttleVars, supVars, data, childVars, reader>>

\* event_rx.recv() meets the signal thread's send: Resize refreshes the
\* cached size, Quit leaves the loop.
LoopRecvSignal ==
    /\ mainPc = "recv" /\ sigPc = "send"
    /\ IF sigEv = "Resize"
       THEN /\ size' = handle_size(size, tty)
            /\ mainPc' = "render"
            /\ UNCHANGED loopExit
       ELSE /\ loopExit' = [why |-> "quit", ev |-> NoEvent]
            /\ mainPc' = "drop"
            /\ UNCHANGED size
    /\ sigPc' = "wait" /\ sigEv' = "None"
    /\ UNCHANGED <<print_to_stdout, exitStatus, finalRun, finalArgv, termVars, promptVars, frame,
                   rendered, escaped, inputVars, sigCount, pipePc, throttleVars, supVars,
                   data, childVars, reader>>

\* A throttle thread that checks should_fire again right after func().
LoopRecvRedrawNoSleep ==
    /\ mainPc = "recv" /\ throttlePc = "fire"
    /\ mainPc' = "render"
    /\ throttlePc' = "check"
    /\ slept' = FALSE
    /\ UNCHANGED <<print_to_stdout, loopExit, exitStatus, finalRun, finalArgv, termVars, size,
                   promptVars, frame, rendered, escaped, inputVars, sigVars, pipePc,
                   should_fire, pinged, taken, supVars, data, childVars, reader>>

\* event_rx.recv() meets the send of Redraw in the throttle thread's func();
\* the throttle thread goes back to its sleep.
LoopRecvRedraw ==
    /\ mainPc = "recv" /\ throttlePc = "fire"
    /\ mainPc' = "render"
    /\ throttlePc' = "sleep"
    /\ slept' = FALSE
    /\ UNCHANGED <<print_to_stdout, loopExit, exitStatus, finalRun, finalArgv, termVars, size,
                   promptVars, frame, rendered, escaped, inputVars, sigVars, pipePc,
                   should_fire, pinged, taken, supVars, data, childVars, reader>>

\* start() returns: the renderer it owns is dropped, and the writer with it.
RendererDrop ==
    /\ mainPc = "drop"
    /\ termios' = writer_drop(debug, screen).termios
    /\ screen' = writer_drop(debug, screen).screen
    /\ mainPc' = IF loopExit.why # "error" /\ print_to_stdout THEN "final" ELSE "return"
    /\ UNCHANGED <<print_to_stdout, loopExit, exitStatus, finalRun, finalArgv, debug, size,
                   promptVars, frame, rendered, escaped, inputVars, sigVars, pipePc,
                   throttleVars, supVars, data, childVars, reader>>

\* pipe_cmd_stdout(&cmd, &cmd_args, &ui_prompt.get_string(), ..): the final
\* command is built from the query of the prompt and runs with inherited
\* standard output, or its spawn fails.
FinalRun ==
    /\ mainPc = "final"
    /\ finalArgv' = create_command(CmdLine, get_string(query))
    /\ finalRun' \in {"ran", "failed"}
    /\ mainPc' = "return"
    /\ UNCHANGED <<print_to_stdout, loopExit, exitStatus, termVars, size, promptVars,
                   frame, rendered, escaped, inputVars, sigVars, pipePc, throttleVars,
                   supVars, data, childVars, reader>>

\* main_err returns: its locals are dropped, ui_prompt with the query sender
\* among them.
MainReturn ==
    /\ mainPc = "return"
    /\ mainPc' = "exiting"
    /\ UNCHANGED <<print_to_stdout, loopExit, exitStatus, finalRun, finalArgv, termVars, size,
                   promptVars, frame, rendered, escaped, inputVars, sigVars, pipePc,
                   throttleVars, supVars, data, childVars, reader>>

\* main: exit(1) on an error, else the return from main ends the process.
\* The other threads end with it, wherever they are.
ProcessExit ==
    /\ mainPc = "exiting"
    /\ exitStatus' = IF loopExit.why = "error" \/ finalRun = "failed" THEN 1 ELSE 0
    /\ mainPc' = "exited"
    /\ UNCHANGED <<print_to_stdout, loopExit, finalRun, finalArgv, termVars, size, promptVars, frame,
                   rendered, escaped, inputVars, sigVars, pipePc, throttleVars, supVars,
                   data, childVars, reader>>

\* ------------------------------------------------------------ EscapedVec

\* escaped_vec.len() is called on the EscapedVec.
EscapedLen ==
    /\ ~escaped.has_len
    /\ escaped' = [escaped EXCEPT !.has_len = TRUE,
                                  !.len = EscapedVec_len(escaped.unescaped)]
    /\ UNCHANGED <<mainVars, termVars, size, promptVars, frame, rendered, inputVars,
                   sigVars, pipePc, throttleVars, supVars, data, childVars, reader>>

\* escaped_vec.cap(n) is called on the EscapedVec.
EscapedCap ==
    /\ ~escaped.has_cap
    /\ escaped' = [escaped EXCEPT !.has_cap = TRUE,
                                  !.cap = EscapedVec_cap(escaped.unescaped, escaped.n)]
    /\ UNCHANGED <<mainVars, termVars, size, promptVars, frame, rendered, inputVars,
                   sigVars, pipePc, throttleVars, supVars, data, childVars, reader>>

\* ------------------------------------------------------- specifications

ChildStep ==
    \/ \E c \in Children, s \in Streams : ChildWrite(c, s)
    \/ \E c \in Children : ChildExit(c)

SupStart ==
    \/ SupSpawnOk \/ SupAssign \/ SupReset \/ SupResetSend

ReaderStep ==
    \/ \E c \in Children : ReaderRead(c)
    \/ \E c \in Children : ReaderEof(c)
    \/ \E c \in Children : ReaderReset(c)
    \/ \E c \in Children : ReaderPush(c)
    \/ \E c \in Children : ReaderSend(c)

\* The keystrokes of a user who types `a` and Ctrl-C.
SupKeys == { <<97>>, <<3>> }
OneSize == { [ws_row |-> 3, ws_col |-> 4] }

\* The accept path: a user who types `a`, deletes and presses Return, the
\* main thread from the event loop to the end of the process, and the
\* supervisor with the children it spawns, which stay silent and run until
\* they are killed.
AcceptKeys == { <<97>>, <<DEL>>, <<13>> }

NextAccept ==
    \/ InputRead \/ InputSendClosed
    \/ LoopRender \/ LoopRecvInput
    \/ RendererDrop \/ FinalRun \/ MainReturn \/ ProcessExit
    \/ SupStart \/ SupRecv \/ SupRecvClosed
    \/ PipeCall

SpecAccept == InitWith(AcceptKeys, MaxKeys, {FALSE}, OneSize) /\ [][NextAccept]_vars

\* The terminal side: the main thread with the input and signal threads,
\* for every keystroke of Keys.  The supervisor side is not scheduled; the
\* only event it produces, Redraw, makes the loop render again and changes
\* nothing else of the main thread.
NextUi ==
    \/ InputRead \/ InputSendClosed
    \/ SignalArrive \/ SignalSendClosed
    \/ LoopRender \/ LoopRenderErr \/ LoopRecvInput \/ LoopRecvSignal
    \/ RendererDrop \/ FinalRun \/ MainReturn \/ ProcessExit

SpecUi == InitWith(Keys, MaxKeys, BOOLEAN, WinSizes) /\ [][NextUi]_vars

\* The supervisor side: the supervisor, its children and their readers, fed
\* by a user who types `a` and Ctrl-C.  The throttle thread sleeps.
NextSup ==
    \/ ChildStep \/ SupStart \/ SupSpawnFail \/ SupRecv \/ SupRecvClosed \/ ReaderStep
    \/ PipeCall
    \/ InputRead
    \/ LoopRender \/ LoopRecvInput
    \/ RendererDrop \/ MainReturn \/ ProcessExit

SpecSup == InitWith(SupKeys, MaxEdits, {FALSE}, OneSize) /\ [][NextSup]_vars

\* The supervisor, the reader threads, the redraw pipe thread and the main
\* thread each take a step they can take; spawn() fails only so many times.
\* Nothing is assumed of the user or of the children.
FairSup ==
    /\ SpecSup
    /\ WF_vars(SupStart) /\ WF_vars(SupRecv)
    /\ WF_vars(ReaderStep)
    /\ WF_vars(PipeCall)
    /\ WF_vars(LoopRender \/ LoopRecvInput)

\* The query path: the prompt, the query channel and the supervisor with
\* the children it spawns, fed by a user who types `a`, `é` and deletes.  The
\* children stay silent until they are killed.
QueryKeys == { <<97>>, <<233>>, <<DEL>> }

NextQuery ==
    \/ InputRead \/ LoopRender \/ LoopRecvInput
    \/ SupStart \/ SupSpawnFail \/ SupRecv
    \/ PipeCall

SpecQuery == InitWith(QueryKeys, MaxKeys, {FALSE}, OneSize) /\ [][NextQuery]_vars

\* The redraw path: the supervisor with its first child, the reader of that
\* child, the pipe thread, the throttle thread and the event loop.  Nothing
\* is typed.
NextRedraw ==
    \/ ChildStep \/ SupStart \/ ReaderStep
    \/ PipeCall \/ ThrottleSleep \/ ThrottleCheck
    \/ LoopRender \/ LoopRecvRedraw

SpecRedraw == InitWith({}, 0, {FALSE}, OneSize) /\ [][NextRedraw]_vars

\* The sequences over S of length n at most.
SeqsUpTo(S, n) == UNION { [1..k -> S] : k \in 0..n }

\* EscapedVec on its own, as the unit test of terminal.rs uses it: built from
\* any sequence of the bytes ESC, `[`, `0`, `m`, `x`, then len() and cap(n)
\* are called on it.
EscapedBytes == { ESC, LBRACKET, 48, 109, 120 }

InitEscaped ==
    /\ InitTerminal({}, 0, {FALSE}, OneSize)
    /\ sigCount = 0
    /\ InitPipe(0)
    /\ InitSupervisor
    /\ \E u \in SeqsUpTo(EscapedBytes, MaxBytes), n \in 0..MaxCap : escaped = Escaped(u, n)

NextEscaped == EscapedLen \/ EscapedCap

SpecEscaped == InitEscaped /\ [][NextEscaped]_vars

\* The decoder on a burst of input: the terminal delivers the reads of up to
\* MaxBurst keystrokes at once (a paste, a key held down), out of a bare
\* ESC, the four sequences the decoder knows, the sequences ESC [ A,
\* ESC [ 1;5A and ESC [ [ it does not, and `a`.  The event loop takes the
\* events.
DecodeKeys ==
    { <<ESC, TIMEOUT>>,
      <<ESC, LBRACKET, 68>>, <<ESC, LBRACKET, 67>>,
      <<ESC, LBRACKET, 49, 59, 53, 68>>, <<ESC, LBRACKET, 49, 59, 53, 67>>,
      <<ESC, LBRACKET, 65>>, <<ESC, LBRACKET, 49, 59, 53, 65>>,
      <<ESC, LBRACKET, LBRACKET>>,
      <<97>> }

RECURSIVE Flatten(_)
Flatten(ks) == IF ks = <<>> THEN <<>> ELSE Head(ks) \o Flatten(Tail(ks))

Bursts == { Flatten(ks) : ks \in SeqsUpTo(DecodeKeys, MaxBurst) \ {<<>>} }

InitDecode == \E burst \in Bursts : InitWith({burst}, 1, {FALSE}, OneSize)

NextDecode == InputRead \/ LoopRender \/ LoopRecvInput

SpecDecode == InitDecode /\ [][NextDecode]_vars

\* Frame composition on its own: the event loop renders, for every window
\* size up to MaxRows x MaxCols, either a query of up to MaxQuery chars with
\* the cursor anywhere in it, or an OutputBuffer of up to MaxData bytes out of
\* `x`, \n, \r and ESC, and renders again after one Resize: the signals
\* before the last one the run has are taken as delivered.  The query has
\* been typed and not yet received by the supervisor; the bytes are the
\* standard output of the first child, which has exited.
RenderSizes == { [ws_row |-> r, ws_col |-> c] : r \in 0..MaxRows, c \in 0..MaxCols }
RenderBytes == { 120, LF, CR, ESC }

InitRender ==
    /\ InitTerminal({}, 0, {FALSE}, RenderSizes)
    /\ sigCount = MaxSignals - 1
    /\ escaped = NoEscaped
    /\ \E n \in 0..MaxQuery, bytes \in SeqsUpTo(RenderBytes, MaxData) :
         /\ n = 0 \/ bytes = <<>>
         /\ InitPipe(IF n > 0 THEN 0 ELSE IF bytes = <<>> THEN 1 ELSE 3)
         /\ query = [i \in 1..n |-> 96 + i]
         /\ cursor_index \in 0..n
         /\ sent = [i \in 1..n |-> get_string(SubSeq(query, 1, i))]
         /\ queryChan = sent
         /\ data = [i \in 1..Len(bytes) |-> [Byte(1, "out", i) EXCEPT !.val = bytes[i]]]
         /\ emitted = [c \in Children |->
                         [s \in Streams |-> IF c = 1 /\ s = "out" THEN Len(bytes) ELSE 0]]
    /\ supPc = "recv" /\ supQuery = <<>> /\ supChild = 1 /\ supNew = 0
    /\ lastSpawn = "ok" /\ nSpawned = 1 /\ spawnFails = 0
    /\ childState = [c \in Children |-> IF c = 1 THEN "exited" ELSE "unborn"]
    /\ argv = [c \in Children |-> IF c = 1 THEN CmdLine ELSE <<>>]
    /\ pipe = [c \in Children |-> [s \in Streams |-> <<>>]]
    /\ reader = [c \in Children |->
                   IF c = 1 THEN [NoReader EXCEPT !.pc = "done", !.stream = "err"]
                   ELSE NoReader]

NextRender == LoopRender \/ LoopRenderPanic \/ SignalArrive \/ LoopRecvSignal

SpecRender == InitRender /\ [][NextRender]_vars

\* Every thread of the program that can take a step eventually takes one.
\* The child is not part of the program: it may stay silent and never exit.
FairRedraw ==
    /\ SpecRedraw
    /\ WF_vars(SupStart) /\ WF_vars(ReaderStep) /\ WF_vars(PipeCall)
    /\ WF_vars(ThrottleSleep) /\ WF_vars(ThrottleCheck)
    /\ WF_vars(LoopRender) /\ WF_vars(LoopRecvRedraw)

\* The coordination of the threads while the event loop runs, from the
\* moment the supervisor has spawned the first child and waits in recv(),
\* the redraw pipe thread has passed the ping of the supervisor on, the
\* reader thread of the child is about to read, and the child has written a
\* byte to its standard output.  The user types `a`, one more signal
\* arrives, and the children stay alive and write no more.
CoordKeys == { <<97>> }

InitCoord ==
    /\ InitTerminal(CoordKeys, MaxEdits, {FALSE}, OneSize)
    /\ sigCount = MaxSignals - 1
    /\ InitPipe(1)
    /\ escaped = NoEscaped
    /\ query = <<>> /\ cursor_index = 0 /\ queryChan = <<>> /\ sent = <<>>
    /\ supPc = "recv" /\ supQuery = <<>> /\ supChild = 1 /\ supNew = 0
    /\ lastSpawn = "ok" /\ nSpawned = 1 /\ spawnFails = 0
    /\ data = <<>>
    /\ childState = [c \in Children |-> IF c = 1 THEN "running" ELSE "unborn"]
    /\ argv = [c \in Children |-> IF c = 1 THEN CmdLine ELSE <<>>]
    /\ emitted = [c \in Children |->
                    [s \in Streams |-> IF c = 1 /\ s = "out" THEN 1 ELSE 0]]
    /\ pipe = [c \in Children |->
                 [s \in Streams |-> IF c = 1 /\ s = "out" THEN <<Byte(1, "out", 1)>> ELSE <<>>]]
    /\ reader = [c \in Children |->
                   IF c = 1 THEN [NoReader EXCEPT !.pc = "read"] ELSE NoReader]

NextCoord ==
    \/ SupStart \/ SupRecv \/ ReaderStep
    \/ InputRead \/ SignalArrive
    \/ PipeCall \/ ThrottleSleep \/ ThrottleCheck
    \/ LoopRender \/ LoopRecvInput \/ LoopRecvSignal \/ LoopRecvRedraw

SpecCoord == InitCoord /\ [][NextCoord]_vars

\* One step of the main thread in the loop of start.
LoopStep == LoopRender \/ LoopRecvInput \/ LoopRecvSignal \/ LoopRecvRedraw

\* The main thread, when it can take a step, eventually takes one.  Nothing
\* is assumed of the other threads.
FairCoord == SpecCoord /\ WF_vars(LoopStep)

\* The whole program.  Its state space is the product of the terminal side
\* and the supervisor side; the specifications above are the parts of
\* it that are checked, each with the environment it is run in.
Init ==
    \/ InitWith(Keys, MaxKeys, BOOLEAN, WinSizes)
    \/ InitWith(SupKeys, MaxEdits, {FALSE}, OneSize)
    \/ InitWith({}, 0, {FALSE}, OneSize)
    \/ InitWith(QueryKeys, MaxKeys, {FALSE}, OneSize)
    \/ InitWith(AcceptKeys, MaxKeys, {FALSE}, OneSize)
    \/ InitRender
    \/ InitDecode
    \/ InitCoord
    \/ InitEscaped

Next ==
    \/ ChildStep \/ SupStart \/ SupSpawnFail \/ SupRecv \/ SupRecvClosed \/ ReaderStep
    \/ InputRead \/ InputSendClosed
    \/ SignalArrive \/ SignalSendClosed
    \/ PipeCall \/ ThrottleSleep \/ ThrottleCheck \/ ThrottleFireClosed
    \/ LoopRender \/ LoopRenderPanic \/ LoopRenderErr
    \/ LoopRecvInput \/ LoopRecvSignal \/ LoopRecvRedraw
    \/ RendererDrop \/ FinalRun \/ MainReturn \/ ProcessExit
    \/ EscapedLen \/ EscapedCap

Spec == Init /\ [][Next]_vars

\* ---------------------------------------------------------------- claims

Running == { c \in Children : childState[c] = "running" }
Exited == mainPc \in {"final", "return", "exiting", "exited"}

\* C1: at most one supervised child process is alive at any instant: the
\* previous child is killed and reaped before the next one is spawned.
C1_AtMostOneChildAlive == Cardinality(Running) <= 1

\* C2: once the supervisor has applied its current query (the child is
\* spawned, the buffer reset, the supervisor waits for the next query), the
\* OutputBuffer the renderer snapshots holds bytes of the supervised child
\* only, never bytes of a previous child.
C2_BufferOfCurrentChild ==
    (supPc = "recv" /\ supChild # 0) =>
        \A i \in 1..Len(data) : data[i].child = supChild

\* The chars a String holds, from its UTF-8 bytes.
RECURSIVE chars(_)
chars(bytes) ==
    IF bytes = <<>> THEN <<>>
    ELSE IF Head(bytes) < 128 THEN <<Head(bytes)>> \o chars(Tail(bytes))
    ELSE <<(Head(bytes) - 192) * 64 + (bytes[2] - 128)>> \o chars(Tail(Tail(bytes)))

\* C3: after every insert, delete and cursor move the cursor index is within
\* [0, len(query)], and every string sent on the query channel holds the
\* chars of the query at the moment it is sent.
C3_CursorInBoundsEmitsQuery ==
    /\ [](cursor_index \in 0..Len(query))
    /\ [][Len(queryChan') > Len(queryChan) =>
            chars(queryChan'[Len(queryChan')]) = query']_vars

\* An insert, a move to the left and an insert in front of the first char.
C3_Witness ==
    /\ Len(queryChan) = 2 /\ Len(query) = 2 /\ cursor_index = 1
    /\ query[1] = 233 /\ query[2] = 97

\* C4: the final command is run if and only if the event loop ended on
\* Ctrl-M, and an input on which the termination predicate is true leaves
\* the query, the cursor and the query channel as they are.
C4_FinalRunIffAccept ==
    /\ [](finalRun # "none" => loopExit = [why |-> "input", ev |-> CtrlM])
    /\ []((mainPc \in {"return", "exiting", "exited"}
           /\ loopExit = [why |-> "input", ev |-> CtrlM]) => finalRun # "none")
    /\ [][(mainPc = "recv" /\ mainPc' = "drop") =>
            UNCHANGED <<query, cursor_index, queryChan>>]_vars

\* The final command has run with a query typed before Return.
C4_Witness == finalRun = "ran" /\ query # <<>> /\ mainPc = "exited"

\* C5: once start() has returned, on every path, the saved terminal
\* attributes are set again and, unless debug, the alternate screen is left;
\* this holds when the final command is spawned and when the process exits.
C5_TerminalRestored ==
    Exited => (termios = "original" /\ (debug \/ screen = "normal"))

\* The loop ended on a render error and the process exited with status 1.
C5_Witness ==
    /\ mainPc = "exited" /\ exitStatus = 1 /\ loopExit.why = "error"
    /\ ~debug /\ screen = "normal" /\ termios = "original"

\* C6: after a failed spawn the supervisor waits for the next query with the
\* OutputBuffer empty; it spawns again only for a query it has received.
C6_SpawnFailureWaits ==
    lastSpawn = "failed" => (supPc = "recv" /\ data = <<>>)

\* C7: after a decoding error on the terminal input the program terminates
\* with status 1.
C7_DecodeErrorExits1 ==
    (inputPc = "panicked" /\ mainPc = "exited") => exitStatus = 1

\* C8: when the program has terminated no supervised child is left alive.
C8_NoChildAfterExit == mainPc = "exited" => Running = {}

\* C9: a full sleep of the throttle thread lies between any two Redraw
\* events it delivers, however many pings arrive in between.
C9_OneRedrawPerPeriod ==
    [][(throttlePc = "fire" /\ throttlePc' # "fire") => slept]_vars

\* One Redraw was delivered for two pings, and the next sleep has not ended.
C9_Witness == throttlePc = "sleep" /\ ~slept /\ taken >= 2

\* C10: whenever the OutputBuffer differs from what the last frame shows, a
\* later frame shows the OutputBuffer as it then is.
C10_NoLostFrame == (frame # data) ~> (frame = data)

\* The child has ended and the frame shows its last output.
C10_Witness ==
    /\ reader[1].pc = "done" /\ data # <<>> /\ frame = data /\ throttlePc = "sleep"

\* The number of bytes of a sequence that lie outside escape spans.  A span
\* starts at ESC, the `[` right after ESC stays inside, and the span ends
\* with the first byte after that in 0x40..0x7E.  mode is "out" outside a
\* span, "esc" right after ESC, "in" further inside.
RECURSIVE OutsideSpans(_, _)
OutsideSpans(bytes, mode) ==
    IF bytes = <<>> THEN 0
    ELSE LET b == Head(bytes) IN
         IF b = ESC THEN OutsideSpans(Tail(bytes), "esc")
         ELSE IF mode = "out" THEN 1 + OutsideSpans(Tail(bytes), "out")
         ELSE IF mode = "esc" /\ b = LBRACKET THEN OutsideSpans(Tail(bytes), "in")
         ELSE IF b \in 64..126 THEN OutsideSpans(Tail(bytes), "out")
         ELSE OutsideSpans(Tail(bytes), "in")

IsPrefix(a, b) == Len(a) <= Len(b) /\ a = SubSeq(b, 1, Len(a))

\* C11: cap(N) returns a prefix of the input whose visible length is at most
\* N, and the whole input when N is at least the visible length of the input.
C11_CapIsBoundedPrefix ==
    escaped.has_cap =>
        /\ IsPrefix(escaped.cap, escaped.unescaped)
        /\ OutsideSpans(escaped.cap, "out") <= escaped.n
        /\ (escaped.n >= OutsideSpans(escaped.unescaped, "out")
              => escaped.cap = escaped.unescaped)

\* C12: len() is the number of bytes outside escape spans.
C12_LenCountsOutsideSpans ==
    escaped.has_len => escaped.len = OutsideSpans(escaped.unescaped, "out")

\* C13: the first child is spawned with the command line as given, the
\* child after it with the k-th string sent on the query channel appended
\* as the last argument, unless that string is empty.
C13_ChildPerQueryInOrder ==
    /\ nSpawned <= Len(sent) + 1
    /\ \A c \in 1..nSpawned :
         LET q == IF c = 1 THEN <<>> ELSE sent[c - 1]
         IN argv[c] = IF q = <<>> THEN CmdLine ELSE CmdLine \o <<q>>

\* Three children: for the initial query, for `a`, and for the empty query
\* the delete leaves.
C13_Witness ==
    /\ nSpawned = 3 /\ sent = << <<97>>, <<>> >>
    /\ argv[2] = CmdLine \o << <<97>> >> /\ argv[3] = CmdLine

\* The bytes child c has written to its stream s, in order.
Written(c, s) == [i \in 1..emitted[c][s] |-> Byte(c, s, i)]

\* C14: once the supervised child has written to both streams and exited,
\* and its reader thread has read both streams to their end, the
\* OutputBuffer holds the bytes of standard output followed by the bytes of
\* standard error.
C14_StdoutThenStderr ==
    (reader[1].pc = "done" /\ emitted[1]["out"] > 0 /\ emitted[1]["err"] > 0) =>
        data = Written(1, "out") \o Written(1, "err")

\* C15: when a child has been spawned, no reader thread of a child spawned
\* before it is still running.
C15_ReadersJoinedBeforeSpawn ==
    \A c \in Children : c < nSpawned => reader[c].pc \in {"none", "done"}

\* The event loop handles a Resize in this step.
Resizes == mainPc = "recv" /\ sigPc = "send" /\ sigEv = "Resize" /\ mainPc' = "render"

\* C16: handling a Resize makes the cached size the one the terminal now
\* has and changes nothing else of the prompt, the OutputBuffer, the query
\* channel and the children; and every frame on the screen has been composed
\* with the cached size, its separator having as many dashes as columns.
C16_ResizeOnlyChangesSize ==
    /\ [][Resizes => /\ size' = tty.size
                     /\ UNCHANGED <<query, cursor_index, queryChan, sent, data,
                                    nSpawned, childState, supPc, supQuery>>]_vars
    /\ [](mainPc = "recv" => /\ rendered.separator = size.ws_col
                             /\ Len(rendered.prompt) <= size.ws_col)

\* A Resize has been handled and the frame composed again, for a window of
\* one column, while the OutputBuffer holds a line of output.
C16_Witness ==
    /\ mainPc = "recv" /\ sigCount = MaxSignals /\ sigPc = "wait" /\ loopExit = NoExit
    /\ data # <<>> /\ frame = data
    /\ size = [ws_row |-> 3, ws_col |-> 1] /\ rendered.separator = 1
    /\ Len(rendered.lines) = 1

\* The window of the query a prompt line of the given width shows.
WindowOf(q, c, width) ==
    LET start == IF c < width THEN 0 ELSE c - width
        n == IF c < width THEN Min(width, Len(q)) ELSE width
    IN [i \in 1..n |-> q[start + i]]

\* C17 as stated: the prompt line is the chevron "> " followed by a window
\* of cols - 2 chars of the query, and the cursor is put at line 1, column
\* cursor_index + 2 + 1.
C17_PromptWithChevron ==
    mainPc = "recv" =>
        /\ rendered.prompt = <<62, 32>> \o WindowOf(query, cursor_index, size.ws_col - 2)
        /\ rendered.cursor_line = 1
        /\ rendered.cursor_col = cursor_index + 2 + 1

\* C17 as amended: the prompt line is a window of cols chars of the query
\* and nothing else, chars [0, min(cols, len)) when the cursor index is
\* less than cols and chars [cursor - cols, cursor) otherwise, and the
\* cursor is put at line 1, column cursor_index + 1.
C17_PromptWindow ==
    mainPc = "recv" =>
        /\ rendered.prompt = WindowOf(query, cursor_index, size.ws_col)
        /\ rendered.cursor_line = 1
        /\ rendered.cursor_col = cursor_index + 1

\* A query longer than the window, the cursor at its end: the window has
\* scrolled.
C17_Witness ==
    /\ mainPc = "recv" /\ size.ws_col = 2 /\ query = <<97, 98, 99>> /\ cursor_index = 3
    /\ rendered.prompt = <<98, 99>> /\ rendered.cursor_col = 4

\* C18: in every frame the cursor is put on a column of the screen, the one
\* where the prompt line shows the place of the cursor in the query.
C18_CursorVisible ==
    mainPc = "recv" =>
        LET start == IF cursor_index < size.ws_col THEN 0 ELSE cursor_index - size.ws_col
        IN /\ rendered.cursor_col \in 1..size.ws_col
           /\ rendered.cursor_col = cursor_index - start + 1

\* The rows a written line takes on a screen of the given width.
RowsOf(line, cols) ==
    IF cols = 0 THEN 1 ELSE Max((OutsideSpans(line, "out") + cols - 1) \div cols, 1)

RECURSIVE SumRows(_, _)
SumRows(lines, cols) ==
    IF lines = <<>> THEN 0 ELSE RowsOf(Head(lines), cols) + SumRows(Tail(lines), cols)

\* C19: the lines written after the separator are prefixes of the first
\* lines of the output, \r removed, and the rows of the prompt, of the
\* separator and of the written lines are together no more than the rows of
\* the terminal.
C19_FrameFitsRows ==
    mainPc = "recv" =>
        LET lines == split[ComponentDataOut(frame), <<>>] IN
        /\ Len(rendered.lines) <= Len(lines)
        /\ \A i \in 1..Len(rendered.lines) :
             IsPrefix(rendered.lines[i], filter_cr[lines[i]])
        /\ 1 + 1 + SumRows(rendered.lines, size.ws_col) <= size.ws_row

\* C20: composing a frame never takes left_lines below 0, neither by
\* wrapping around nor by a panic.
C20_LeftLinesNeverUnderflows ==
    ~rendered.underflow /\ loopExit.why # "panic"

\* Where the end of a sequence lies: "out" outside every escape span, "esc"
\* right after ESC, "in" further inside a span.
RECURSIVE SpanMode(_, _)
SpanMode(bytes, mode) ==
    IF bytes = <<>> THEN mode
    ELSE LET b == Head(bytes) IN
         IF b = ESC THEN SpanMode(Tail(bytes), "esc")
         ELSE IF mode = "out" THEN SpanMode(Tail(bytes), "out")
         ELSE IF mode = "esc" /\ b = LBRACKET THEN SpanMode(Tail(bytes), "in")
         ELSE IF b \in 64..126 THEN SpanMode(Tail(bytes), "out")
         ELSE SpanMode(Tail(bytes), "in")

\* The last byte of a sequence lies outside every escape span.
EndsWithVisible(bytes) ==
    /\ bytes # <<>>
    /\ OutsideSpans(bytes, "out") = OutsideSpans(SubSeq(bytes, 1, Len(bytes) - 1), "out") + 1

\* C21: what cap returns is the whole input or ends right after a visible
\* byte, so it ends inside an escape span only when it is the whole input
\* and the input ends inside that span.
C21_CapNeverSplitsEscape ==
    escaped.has_cap =>
        /\ escaped.cap = escaped.unescaped \/ EndsWithVisible(escaped.cap)
        /\ (SpanMode(escaped.cap, "out") # "out" => escaped.cap = escaped.unescaped)

\* cap has cut the input right after a visible byte that follows an escape
\* sequence, leaving bytes out.
C21_Witness ==
    /\ escaped.has_cap
    /\ Len(escaped.cap) < Len(escaped.unescaped)
    /\ \E i \in DOMAIN escaped.cap : escaped.cap[i] = ESC

\* The reads the next read_input is served with, when the terminal delivers
\* one burst.
BurstReads == IF tty.left > 0 THEN CHOOSE k \in tty.keys : TRUE ELSE tty.pending

\* The index of the first byte in 0x40..0x7E of rs from index 3 on, 0 when
\* there is none.
CsiFinal(rs) ==
    IF \E j \in 3..Len(rs) : rs[j] \in 64..126
    THEN CHOOSE j \in 3..Len(rs) : rs[j] \in 64..126 /\ \A i \in 3..(j - 1) : rs[i] \notin 64..126
    ELSE 0

\* The escape a CSI body stands for, "" when it stands for none.
CsiName(body) ==
    IF body = <<68>> THEN "LeftArrow"
    ELSE IF body = <<67>> THEN "RightArrow"
    ELSE IF body = <<49, 59, 53, 68>> THEN "CtrlLeftArrow"
    ELSE IF body = <<49, 59, 53, 67>> THEN "CtrlRightArrow"
    ELSE ""

\* C22: a read_input that starts with ESC gives Escape(Timeout) when the
\* poll times out; after ESC [ it takes the bytes up to and including the
\* first one in 0x40..0x7E, gives the arrow the bytes stand for, and gives
\* no event and reads again when they stand for none; the byte after the
\* sequence is decoded on its own.
C22_EscapeDecoding ==
    [][(inputPc = "read" /\ tty' # tty) =>
        LET rs == BurstReads
            j == CsiFinal(rs)
        IN /\ (rs[1] = ESC /\ rs[2] = TIMEOUT) =>
                /\ inputEv' = Ev("Escape", 0, "Timeout") /\ inputPc' = "send"
                /\ tty'.pending = SubSeq(rs, 3, Len(rs))
           /\ (rs[1] = ESC /\ rs[2] = LBRACKET /\ j > 0) =>
                /\ tty'.pending = SubSeq(rs, j + 1, Len(rs))
                /\ IF CsiName(SubSeq(rs, 3, j)) # ""
                   THEN inputEv' = Ev("Escape", 0, CsiName(SubSeq(rs, 3, j)))
                        /\ inputPc' = "send"
                   ELSE inputEv' = NoEvent /\ inputPc' = "read"
           /\ rs[1] \in 32..126 =>
                /\ inputEv' = Ev("Printable", rs[1], "") /\ inputPc' = "send"
                /\ tty'.pending = Tail(rs)
      ]_vars

\* ESC [ 1;5A was taken whole without an event, and the `a` after it has
\* been decoded as a printable.
C22_Witness ==
    /\ tty.keys = { <<ESC, LBRACKET, 49, 59, 53, 65, 97>> }
    /\ tty.left = 0 /\ tty.pending = <<>>
    /\ inputPc = "send" /\ inputEv = Ev("Printable", 97, "")
    /\ query = <<>>

\* The event loop has left its loop.
LoopLeft == mainPc \notin {"render", "recv"}

\* C23: a step that writes the OutputBuffer completes no channel send and
\* does no input or output; the event loop can always take the input it
\* has received, whatever the supervisor does; and an Input, a signal event
\* or a Redraw that waits to be sent to the event loop is delivered, unless
\* the loop is left: time and again none is waiting.
C23_NoDeadlock ==
    /\ [][data' # data =>
            UNCHANGED <<pipePc, pipe, emitted, queryChan, frame, rendered, mainPc,
                        inputPc, sigPc, throttlePc>>]_vars
    /\ [](mainPc = "recv" /\ inputPc = "send" => ENABLED LoopRecvInput)
    /\ []<>(inputPc # "send" \/ LoopLeft)
    /\ []<>(sigPc # "send" \/ LoopLeft)
    /\ []<>(throttlePc # "fire" \/ LoopLeft)

\* An Input, a Quit or Resize and a Redraw wait to be sent to the event
\* loop while the reader thread waits to send its ping for the bytes it
\* has pushed.
C23_Witness ==
    /\ inputPc = "send" /\ sigPc = "send" /\ throttlePc = "fire"
    /\ mainPc \in {"render", "recv"}
    /\ reader[1].pc = "push_send" /\ data # <<>>

\* The user has stopped editing and the event loop runs: no keystroke is
\* left to come or to be handled.
EditingOver ==
    /\ mainPc \in {"render", "recv"}
    /\ tty.left = 0 /\ tty.pending = <<>> /\ inputPc = "read"

\* The child spawned with the last string sent on the query channel.
LastChild == Len(sent) + 1

\* After the last query, the supervisor holds the child of that query and
\* no other supervised child runs.
SupervisesLastChild ==
    /\ supChild = LastChild /\ supNew = 0
    /\ Running \subseteq {LastChild}

\* C24: once the user has stopped editing, from some moment on the
\* supervisor has as its only supervised child the one spawned with the
\* last query emitted, and the OutputBuffer holds bytes of that child only.
C24_ConvergesOnLastQuery ==
    <>[](EditingOver =>
            /\ SupervisesLastChild
            /\ \A i \in 1..Len(data) : data[i].child = LastChild)

\* The command line of a final command run with the query q.
FinalCmd(q) == IF q = <<>> THEN CmdLine ELSE CmdLine \o <<q>>

\* The string last sent on the query channel, the empty one if none was.
LastEmitted == IF sent = <<>> THEN <<>> ELSE sent[Len(sent)]

\* C25: on accept, the final command is run with exactly the query string
\* last emitted to the supervisor, the empty query if none was emitted, and
\* at the moment the final command is spawned no supervised child is alive.
C25_FinalRunAfterChildren ==
    [][(mainPc = "final" /\ mainPc' = "return") =>
            /\ finalArgv' = FinalCmd(LastEmitted)
            /\ Running = {}]_vars

====
